---- MODULE Spec2Model ----
(***************************************************************************)
(* Model of the video-info service: URL validation and normalisation, the  *)
(* format ranker, the time-expiring info cache (src/utils.py) and the two   *)
(* request handlers /fetch-info and /download (src/app.py).                 *)
(*                                                                          *)
(* Python strings are TLA+ strings (TLC evaluates Len, SubSeq and \o on     *)
(* them), so parsing, formatting and substring tests are computed the way   *)
(* the code computes them.  A Python dict is a function whose DOMAIN is the  *)
(* set of keys that are present; d.get(k, default) is GetD.  A key whose     *)
(* value is None is modelled as a missing key.                              *)
(***************************************************************************)
EXTENDS Integers, Sequences, FiniteSets, TLC

VARIABLES cache, now, last, okAt, nreq

vars == <<cache, now, last, okAt, nreq>>

(***************************************************************************)
(* String helpers (Python str methods).                                    *)
(***************************************************************************)

\* s[i] as a one-character string (1-based)
CharAt(s, i) == SubSeq(s, i, i)

\* s.find(sub) + 1 : the 1-based index of the first occurrence, 0 when none
Find(s, sub) ==
  LET hits == {i \in 1..(Len(s) - Len(sub) + 1) : SubSeq(s, i, i + Len(sub) - 1) = sub}
  IN  IF hits = {} THEN 0 ELSE CHOOSE i \in hits : \A j \in hits : i <= j

\* sub in s
Contains(s, sub) == Find(s, sub) # 0

\* s[:i-1], the part before 1-based index i
Before(s, i) == SubSeq(s, 1, i - 1)

\* s[i:], the part from 1-based index i on
From(s, i) == SubSeq(s, i, Len(s))

\* s.lstrip(c) for a one-character c
RECURSIVE LStrip(_, _)
LStrip(s, c) ==
  IF Len(s) > 0 /\ CharAt(s, 1) = c THEN LStrip(From(s, 2), c) ELSE s

\* s.split(sep)[0]
SplitFirst(s, sep) ==
  IF Contains(s, sep) THEN Before(s, Find(s, sep)) ELSE s

\* s.split(sep)[1]; only called when sep occurs in s
SplitSecond(s, sep) ==
  LET rest == From(s, Find(s, sep) + Len(sep))
  IN  SplitFirst(rest, sep)

\* d.get(k, default)
GetD(d, k, default) == IF k \in DOMAIN d THEN d[k] ELSE default

\* d.get(k) is not None
Has(d, k) == k \in DOMAIN d

Digits == {"0", "1", "2", "3", "4", "5", "6", "7", "8", "9"}

DigitVal(c) == CHOOSE n \in 0..9 : ToString(n) = c

\* int(s) for a string of decimal digits
RECURSIVE StrToNat(_)
StrToNat(s) ==
  IF Len(s) = 0 THEN 0
  ELSE StrToNat(Before(s, Len(s))) * 10 + DigitVal(CharAt(s, Len(s)))

(***************************************************************************)
(* urllib.parse.urlparse, as far as is_valid_youtube_url and               *)
(* normalize_youtube_url use it: scheme, netloc, path; ValueError on an    *)
(* unbalanced bracket in the netloc.                                       *)
(***************************************************************************)

Letters ==
  {"a", "b", "c", "d", "e", "f", "g", "h", "i", "j", "k", "l", "m",
   "n", "o", "p", "q", "r", "s", "t", "u", "v", "w", "x", "y", "z"}

SchemeChars == Letters \cup Digits \cup {"+", "-", "."}

\* the 1-based index of the first of the characters in delims, Len(s)+1 when none
FirstOf(s, delims) ==
  LET hits == {i \in 1..Len(s) : CharAt(s, i) \in delims}
  IN  IF hits = {} THEN Len(s) + 1 ELSE CHOOSE i \in hits : \A j \in hits : i <= j

\* the scheme of url given the 1-based index of its first ':' (0 when none),
\* "" when the text before the ':' is no scheme
UrlScheme(url, colon) ==
  IF /\ colon > 1
     /\ CharAt(url, 1) \in Letters
     /\ \A i \in 1..(colon - 1) : CharAt(url, i) \in SchemeChars
  THEN Before(url, colon) ELSE ""

\* the result, given the netloc and what follows it: the fragment and the
\* query are split off the path; an unbalanced bracket in the netloc raises
UrlParts(scheme, netloc, rest) ==
  [raises |-> \/ (Contains(netloc, "[") /\ ~Contains(netloc, "]"))
              \/ (Contains(netloc, "]") /\ ~Contains(netloc, "[")),
   scheme |-> scheme,
   netloc |-> netloc,
   path   |-> SplitFirst(SplitFirst(rest, "#"), "?")]

\* the netloc runs up to the first of '/', '?', '#' (index cut)
UrlCut(scheme, afterSlashes, cut) ==
  UrlParts(scheme, Before(afterSlashes, cut), From(afterSlashes, cut))

\* rest is the url after its scheme: a netloc follows a leading '//'
UrlAfterScheme(scheme, rest) ==
  IF Len(rest) >= 2 /\ SubSeq(rest, 1, 2) = "//"
  THEN UrlCut(scheme, From(rest, 3), FirstOf(From(rest, 3), {"/", "?", "#"}))
  ELSE UrlParts(scheme, "", rest)

UrlWithScheme(url, scheme) ==
  UrlAfterScheme(scheme, IF scheme = "" THEN url ELSE From(url, Len(scheme) + 2))

urlparse(url) == UrlWithScheme(url, UrlScheme(url, Find(url, ":")))

valid_domains == {"www.youtube.com", "youtube.com", "youtu.be", "m.youtube.com"}

\* the body of is_valid_youtube_url on the parsed url; a ValueError of
\* urlparse is caught and the url is not valid
ValidParsed(parsed) ==
  IF parsed.raises THEN FALSE ELSE parsed.netloc \in valid_domains

\* a validator that looks for the domain anywhere in the url
is_valid_youtube_url_Substring(url) ==
  Contains(url, "youtube.com") \/ Contains(url, "youtu.be")

is_valid_youtube_url(url) == ValidParsed(urlparse(url))

\* video_id of lines 36-39
VideoId(stripped) ==
  IF Contains(stripped, "?") THEN SplitFirst(stripped, "?") ELSE stripped

\* the body of normalize_youtube_url on the parsed url
NormalizeParsed(url, parsed) ==
  IF parsed.raises THEN url
  ELSE IF parsed.netloc = "youtu.be"
  THEN "https://www.youtube.com/watch?v=" \o VideoId(LStrip(parsed.path, "/"))
  ELSE url

normalize_youtube_url(url) == NormalizeParsed(url, urlparse(url))

(***************************************************************************)
(* Formatting helpers.                                                     *)
(***************************************************************************)

\* round(num / den, half to even), the rounding of Python's '.1f' on a
\* quotient by a power of two (exact in binary floating point)
RoundHalfEven(num, den) ==
  LET q == num \div den
      r == num % den
  IN  IF 2 * r > den THEN q + 1
      ELSE IF 2 * r < den THEN q
      ELSE IF q % 2 = 0 THEN q ELSE q + 1

\* f"{x:.1f}" for x = tenths / 10
FormatTenths(tenths) == ToString(tenths \div 10) \o "." \o ToString(tenths % 10)

KB == 1024

MB == 1024 * 1024

\* format_file_size(bytes) for bytes that is not None
format_file_size(bytes) ==
  IF bytes < MB
  THEN FormatTenths(RoundHalfEven(bytes * 10, KB)) \o " KB"
  ELSE FormatTenths(RoundHalfEven(bytes * 10, MB)) \o " MB"

format_resolution(resolution) ==
  IF resolution = "" \/ resolution = "N/A" THEN "N/A"
  ELSE IF Contains(resolution, "x")
  THEN SplitSecond(resolution, "x") \o "p"
  ELSE resolution

\* float(s) of a '.1f' rendering, in tenths
FloatTenths(s) ==
  LET dot == Find(s, ".")
  IN  StrToNat(Before(s, dot)) * 10 + StrToNat(From(s, dot + 1))

\* the sort key of line 172, in tenths:
\* float(x['filesize'].split()[0]) if 'Unknown' not in x['filesize'] else 0
SizeKey(x) ==
  IF Contains(x.filesize, "Unknown") THEN 0
  ELSE FloatTenths(SplitFirst(x.filesize, " "))

(***************************************************************************)
(* The format ranker, lines 135-201 of get_video_info.                     *)
(***************************************************************************)

priority_heights == <<360, 480, 720, 1080>>

\* a test that forgets to skip the entries without a video stream
Qualifies_NoVideoCheck(f) ==
  /\ Has(f, "height")
  /\ f.height # 0
  /\ \E i \in DOMAIN priority_heights : priority_heights[i] = f.height

\* the test of lines 141-151: the entry carries video and its height is a tier
Qualifies(f) ==
  /\ ~(Has(f, "vcodec") /\ f.vcodec = "none")
  /\ Has(f, "height")
  /\ f.height # 0
  /\ \E i \in DOMAIN priority_heights : priority_heights[i] = f.height

\* the dict appended at lines 155-161
Candidate(f) ==
  LET resolution == GetD(f, "resolution", "N/A")
      ext        == GetD(f, "ext", "N/A")
  IN  [format_id  |-> GetD(f, "format_id", ""),
       quality    |-> format_resolution(resolution) \o " (" \o ext \o ")",
       ext        |-> ext,
       resolution |-> resolution,
       filesize   |-> IF Has(f, "filesize") /\ f.filesize # 0
                      THEN format_file_size(f.filesize) ELSE "Unknown MB"]

\* priority_formats[height], in the order of the raw list (lines 140-161)
RECURSIVE Bucket(_, _)
Bucket(raw, height) ==
  IF raw = <<>> THEN <<>>
  ELSE LET f == Head(raw)
       IN  IF Qualifies(f) /\ f.height = height
           THEN <<Candidate(f)>> \o Bucket(Tail(raw), height)
           ELSE Bucket(Tail(raw), height)

IsMp4(c) == c.ext = "mp4"

\* sorted(mp4_formats, key=..., reverse=True)[0]: the first entry, in list
\* order, among those with the largest key (the sort is stable)
BestMp4(mp4_formats) ==
  LET top == CHOOSE i \in DOMAIN mp4_formats :
               /\ \A j \in DOMAIN mp4_formats :
                    SizeKey(mp4_formats[j]) <= SizeKey(mp4_formats[i])
               /\ \A j \in 1..(i - 1) :
                    SizeKey(mp4_formats[j]) < SizeKey(mp4_formats[i])
  IN  mp4_formats[top]

\* a choice that takes the first entry of the tier whatever its container
BestOfTier_First(bucket) == bucket[1]

\* the choice of lines 166-177 for one tier whose bucket is not empty
BestOfTier(bucket) ==
  LET mp4_formats == SelectSeq(bucket, IsMp4)
  IN  IF mp4_formats # <<>> THEN BestMp4(mp4_formats) ELSE bucket[1]

\* the loop of lines 164-177: the tiers that hold a candidate, ascending,
\* each with its chosen candidate
RECURSIVE BestFormatsFrom(_, _)
BestFormatsFrom(raw, i) ==
  IF i > Len(priority_heights) THEN <<>>
  ELSE LET height == priority_heights[i]
           bucket == Bucket(raw, height)
       IN  IF bucket # <<>>
           THEN <<[height |-> height, fmt |-> BestOfTier(bucket)]>>
                  \o BestFormatsFrom(raw, i + 1)
           ELSE BestFormatsFrom(raw, i + 1)

BestFormats(raw) == BestFormatsFrom(raw, 1)

\* is_shorts = '/shorts/' in url (line 193)
IsShorts(url) == Contains(url, "/shorts/")

\* the scan of lines 186-190
HasAudio(raw, format_id) ==
  \E i \in DOMAIN raw :
    /\ Has(raw[i], "format_id")
    /\ raw[i].format_id = format_id
    /\ ~(Has(raw[i], "acodec") /\ raw[i].acodec = "none")

\* the dict appended at lines 195-201
Formatted(fmt, raw, url) ==
  LET resolution_display == format_resolution(fmt.resolution)
  IN  [format_id |-> fmt.format_id,
       quality   |-> IF fmt.ext = "mp4" THEN resolution_display
                     ELSE resolution_display \o " (" \o fmt.ext \o ")",
       extension |-> fmt.ext,
       filesize  |-> IF fmt.filesize # "Unknown MB" THEN fmt.filesize ELSE "0 MB",
       has_audio |-> IF IsShorts(url) THEN TRUE ELSE HasAudio(raw, fmt.format_id)]

\* formatted_formats (lines 180-201)
FormattedFormats(raw, url) ==
  LET best == BestFormats(raw)
  IN  [i \in DOMAIN best |-> Formatted(best[i].fmt, raw, url)]

\* result (lines 203-209)
VideoInfo(info, url) ==
  [title     |-> GetD(info, "title", "Unknown Title"),
   thumbnail |-> GetD(info, "thumbnail", ""),
   duration  |-> GetD(info, "duration", "None"),
   uploader  |-> GetD(info, "uploader", "Unknown Uploader"),
   formats   |-> FormattedFormats(GetD(info, "formats", <<>>), url)]

(***************************************************************************)
(* The info cache and get_video_info.  VIDEO_INFO_CACHE is a function from *)
(* the keys present to [time, data]; the clock is now.                     *)
(***************************************************************************)

CACHE_EXPIRY == 3600

\* VIDEO_INFO_CACHE[key] = (time, data)
CachePut(c, key, time, data) ==
  [k \in DOMAIN c \cup {key} |->
     IF k = key THEN [time |-> time, data |-> data] ELSE c[k]]

\* a lookup that never checks the age of the entry
CacheFresh_NoExpiry(c, key, current_time) == key \in DOMAIN c

\* the test of lines 101-103: an entry under key that is younger than the window
CacheFresh(c, key, current_time) ==
  /\ key \in DOMAIN c
  /\ current_time - c[key].time < CACHE_EXPIRY

\* the key the result is stored under (line 212)
StoreKey(url, normalized_url) == url

\* a handler that stores a placeholder entry for the url when the extraction
\* fails
Failed_CachesPlaceholder(c, url, end, message) ==
  [how |-> "failed", ok |-> FALSE,
   val |-> "Error fetching video info: " \o message,
   cache |-> CachePut(c, url, end, VideoInfo(<<>>, url)),
   called |-> TRUE, end |-> end]

\* the except clause of lines 216-218, reached for url at time end: the
\* exception is wrapped and raised again, the mapping is as it was
Failed(c, url, end, message) ==
  [how |-> "failed", ok |-> FALSE,
   val |-> "Error fetching video info: " \o message,
   cache |-> c, called |-> TRUE, end |-> end]

\* lines 203-214: the result is stored with the time read at line 212 and
\* returned
Stored(c, key, stored_at, result) ==
  [how |-> "stored", ok |-> TRUE, val |-> result,
   cache |-> CachePut(c, key, stored_at, result), called |-> TRUE,
   end |-> stored_at]

\* lines 107-218: the engine is invoked with the normalized url and returns
\* after took seconds
Extract(url, normalized_url, eng, c, current_time, took) ==
  IF eng.kind = "raise" THEN Failed(c, url, current_time + took, eng.cause)
  ELSE IF eng.kind = "none"
  THEN Failed(c, url, current_time + took,
              "Failed to extract video information. Please check if the URL is valid.")
  ELSE Stored(c, StoreKey(url, normalized_url), current_time + took,
              VideoInfo(eng.info, url))

\* lines 99-105: the lookup under the normalized url
Lookup(url, normalized_url, eng, c, current_time, took) ==
  IF CacheFresh(c, normalized_url, current_time)
  THEN [how |-> "hit", ok |-> TRUE, val |-> c[normalized_url].data,
        cache |-> c, called |-> FALSE, end |-> current_time]
  ELSE Extract(url, normalized_url, eng, c, current_time, took)

\* get_video_info(url) called at current_time, with eng what the external
\* engine does if it is invoked and took the seconds it needs.  The value is
\* what the call returns (ok) or the message of what it raises, the mapping
\* it leaves, whether the engine was invoked and the time the call ends.
get_video_info(url, eng, c, current_time, took) ==
  IF ~is_valid_youtube_url(url)
  THEN [how |-> "invalid", ok |-> FALSE, val |-> "Not a valid YouTube URL",
        cache |-> c, called |-> FALSE, end |-> current_time]
  ELSE Lookup(url, normalize_youtube_url(url), eng, c, current_time, took)

(***************************************************************************)
(* download_video.                                                         *)
(***************************************************************************)

DOWNLOAD_DIR == "downloads"

\* os.path.basename
RECURSIVE Basename(_)
Basename(path) ==
  IF Contains(path, "/") THEN Basename(From(path, Find(path, "/") + 1)) ELSE path

\* lines 271-279
Downloaded(downloaded_file) ==
  [ok |-> TRUE,
   val |-> [filepath |-> downloaded_file, filename |-> Basename(downloaded_file)]]

\* download_video(url, format_id): eng is what the external engine does
download_video(url, format_id, eng, current_time) ==
  IF eng.kind = "raise"
  THEN [ok |-> FALSE, val |-> "Error downloading video: " \o eng.cause]
  ELSE IF eng.kind = "none"
  THEN [ok |-> FALSE,
        val |-> "Error downloading video: Failed to extract video information for download. Please check if the URL is valid."]
  ELSE Downloaded(DOWNLOAD_DIR \o "/" \o GetD(eng.info, "title", "NA") \o "-"
                    \o ToString(current_time) \o "." \o GetD(eng.info, "ext", "NA"))

(***************************************************************************)
(* The request handlers of src/app.py and the state machine.               *)
(*   cache  VIDEO_INFO_CACHE                                               *)
(*   now    the clock (time.time()), in seconds                            *)
(*   last   the last request handled: what was asked, what get_video_info  *)
(*          or download_video did and the response sent                    *)
(*   okAt   history: for each URL, when its last extraction was stored     *)
(*   nreq   the number of requests handled                                 *)
(* Requests are handled one at a time; the clock moves while the engine    *)
(* works and between requests.                                             *)
(***************************************************************************)

GENERIC_ERROR == "Failed to extract video information. Please check if the URL is valid."

MaxRequests == 2

MaxTicks == 2

\* the clock advances in steps of half the expiry window
TickStep == CACHE_EXPIRY \div 2

MaxTime == MaxTicks * TickStep

NoEngine == [kind |-> "unused"]

NoRequest ==
  [op |-> "none", url |-> "", at |-> 0, how |-> "none", called |-> FALSE,
   ok |-> FALSE, val |-> "", eng |-> NoEngine, prevOk |-> -1,
   status |-> 0, error |-> ""]

Init ==
  /\ cache = <<>>
  /\ now = 0
  /\ last = NoRequest
  /\ okAt = <<>>
  /\ nreq = 0

\* time passes between requests
Tick ==
  /\ now + TickStep <= MaxTime
  /\ now' = now + TickStep
  /\ UNCHANGED <<cache, last, okAt, nreq>>

\* POST /fetch-info with a missing or empty url (lines 33-36)
FetchInfoEmpty ==
  /\ nreq < MaxRequests
  /\ last' = [NoRequest EXCEPT !.op = "fetch_info", !.at = now, !.how = "empty",
                               !.status = 400,
                               !.error = "Please provide a valid YouTube URL"]
  /\ nreq' = nreq + 1
  /\ UNCHANGED <<cache, now, okAt>>

\* lines 41-46: r is what get_video_info did
FetchInfoDone(url, eng, r) ==
  /\ cache' = r.cache
  /\ now' = r.end
  /\ okAt' = IF r.how = "stored"
             THEN [u \in DOMAIN okAt \cup {url} |-> IF u = url THEN r.end ELSE okAt[u]]
             ELSE okAt
  /\ last' = [op |-> "fetch_info", url |-> url, at |-> now, how |-> r.how,
              called |-> r.called, ok |-> r.ok, val |-> r.val,
              eng |-> IF r.called THEN eng ELSE NoEngine,
              prevOk |-> GetD(okAt, url, -1),
              status |-> IF r.ok THEN 200 ELSE 400,
              error |-> IF r.ok THEN "" ELSE GENERIC_ERROR]

\* the url is answered without the engine: it is not valid or its entry is fresh
Immediate(url) ==
  \/ ~is_valid_youtube_url(url)
  \/ CacheFresh(cache, normalize_youtube_url(url), now)

\* POST /fetch-info with url (lines 30-46).  What the engine would do is an
\* input only of the requests that invoke it, and the time it takes only of
\* those whose result is stored with it (line 212).
FetchInfo(url, eng, took) ==
  /\ nreq < MaxRequests
  /\ url # ""
  /\ now + took <= MaxTime
  /\ Immediate(url) => eng.kind = "none"
  /\ eng.kind # "info" => took = 0
  /\ FetchInfoDone(url, eng, get_video_info(url, eng, cache, now, took))
  /\ nreq' = nreq + 1

\* POST /download with a missing url or format (lines 51-55)
DownloadMissing(url, format_id) ==
  /\ nreq < MaxRequests
  /\ url = "" \/ format_id = ""
  /\ last' = [NoRequest EXCEPT !.op = "download", !.url = url, !.at = now,
                               !.how = "missing", !.status = 400,
                               !.error = "Missing URL or format"]
  /\ nreq' = nreq + 1
  /\ UNCHANGED <<cache, now, okAt>>

\* lines 60-86: r is what download_video did, exists whether the file it
\* names is on disk
DownloadDone(url, eng, exists, r) ==
  last' = [op |-> "download", url |-> url, at |-> now,
           how |-> IF ~r.ok THEN "failed" ELSE IF exists THEN "sent" ELSE "no_file",
           called |-> TRUE, ok |-> r.ok, val |-> r.val, eng |-> eng,
           prevOk |-> -1,
           status |-> IF ~r.ok THEN 400 ELSE IF exists THEN 200 ELSE 500,
           error |-> IF ~r.ok THEN r.val
                     ELSE IF exists THEN "" ELSE "Downloaded file not found"]

\* POST /download with url and format (lines 48-86)
Download(url, format_id, eng, exists) ==
  /\ nreq < MaxRequests
  /\ url # "" /\ format_id # ""
  /\ DownloadDone(url, eng, exists, download_video(url, format_id, eng, now))
  /\ nreq' = nreq + 1
  /\ UNCHANGED <<cache, now, okAt>>

(***************************************************************************)
(* Spec: the info endpoint and the cache over time.                        *)
(***************************************************************************)

URLs ==
  {"https://www.youtube.com/watch?v=abc",
   "https://m.youtube.com/watch?v=abc",
   "https://youtu.be/abc",
   "https://www.youtube.com/shorts/abc",
   "https://www.youtube.com/watch?v=abc&r=/shorts/",
   "https://evil.com/watch?v=abc",
   "http://[youtu.be/abc"}

\* what the external engine reports for a video: one video-only mp4 stream,
\* or one webm stream with audio
Infos ==
  {[title |-> "A", duration |-> 212, uploader |-> "U",
    formats |-> <<[format_id |-> "134", ext |-> "mp4", resolution |-> "640x360",
                   height |-> 360, filesize |-> 1572864,
                   vcodec |-> "avc1", acodec |-> "none"]>>],
   [title |-> "B", duration |-> 212, uploader |-> "U",
    formats |-> <<[format_id |-> "247", ext |-> "webm", resolution |-> "1280x720",
                   height |-> 720, filesize |-> 52428800,
                   vcodec |-> "vp9", acodec |-> "opus"]>>]}

\* what the engine does when it is invoked
EngineOutcomes ==
  [kind : {"info"}, info : Infos]
    \cup {[kind |-> "none"]}
    \cup [kind : {"raise"}, cause : {"Video unavailable"}]

\* the seconds an extraction may take
Durations == {0, TickStep}

Next ==
  \/ Tick
  \/ FetchInfoEmpty
  \/ \E url \in URLs, eng \in EngineOutcomes, took \in Durations :
       FetchInfo(url, eng, took)

Spec == Init /\ [][Next]_vars

(***************************************************************************)
(* SpecApi: both endpoints and the failures of the external layer.         *)
(***************************************************************************)

ApiURLs == {"https://youtu.be/abc", "https://evil.com/watch?v=abc", ""}

FormatIds == {"134", ""}

Causes == {"Video unavailable", "HTTP Error 429: Too Many Requests"}

ApiOutcomes ==
  {[kind |-> "info", info |-> [title |-> "A", ext |-> "mp4", formats |-> <<>>]]}
    \cup {[kind |-> "none"]}
    \cup [kind : {"raise"}, cause : Causes]

NextApi ==
  \/ Tick
  \/ FetchInfoEmpty
  \/ \E url \in ApiURLs, eng \in ApiOutcomes, took \in Durations :
       FetchInfo(url, eng, took)
  \/ \E url \in ApiURLs, format_id \in FormatIds : DownloadMissing(url, format_id)
  \/ \E url \in ApiURLs, format_id \in FormatIds, eng \in ApiOutcomes,
        exists \in BOOLEAN :
       Download(url, format_id, eng, exists)

SpecApi == Init /\ [][NextApi]_vars

(***************************************************************************)
(* SpecRank: one request against the empty cache, for every raw format     *)
(* list of up to MaxFormats entries the engine may report.                 *)
(***************************************************************************)

MaxFormats == 2

Sizes == {512000, 10485760, 52428800}

\* a record with the one key k, for each value in S, and the empty record
Opt(k, S) == {[x \in {k} |-> v] : v \in S} \cup {<<>>}

\* entries that carry video at a tier
VideoShapes ==
  {[ext |-> e, height |-> h, vcodec |-> "avc1", acodec |-> "none"] @@ size @@ res :
     e \in {"mp4", "webm"}, h \in {360, 720},
     size \in Opt("filesize", Sizes), res \in Opt("resolution", {"640x360"})}

\* entries the ranker drops: audio only, no video stream at a tier height,
\* a height that is no tier, no height
OtherShapes ==
  {[ext |-> "m4a", vcodec |-> "none", acodec |-> "mp4a",
    resolution |-> "audio only", filesize |-> 512000],
   [ext |-> "mp4", height |-> 360, vcodec |-> "none", acodec |-> "mp4a",
    resolution |-> "640x360", filesize |-> 52428800],
   [ext |-> "mp4", height |-> 144, vcodec |-> "avc1", acodec |-> "none",
    resolution |-> "256x144", filesize |-> 512000],
   [ext |-> "mp4", vcodec |-> "avc1", acodec |-> "none", filesize |-> 512000]}

Shapes == VideoShapes \cup OtherShapes

\* the engine numbers the entries of a list: format_id is the position
WithIds(shapes) ==
  [i \in DOMAIN shapes |-> shapes[i] @@ [format_id |-> ToString(i)]]

RawLists == UNION {[1..n -> Shapes] : n \in 0..MaxFormats}

RankOutcomes ==
  {[kind |-> "info", info |-> [title |-> "A", formats |-> WithIds(l)]] :
     l \in RawLists}

RankURLs == {"https://www.youtube.com/watch?v=abc", "https://www.youtube.com/shorts/abc"}

NextRank ==
  /\ nreq = 0
  /\ \E url \in RankURLs, eng \in RankOutcomes : FetchInfo(url, eng, 0)

SpecRank == Init /\ [][NextRank]_vars

(***************************************************************************)
(* The properties.  What a property says of a URL or of a raw format list  *)
(* is stated on the request (last.url, last.eng) and on the response       *)
(* (last.val), with the words of the specification defined here.           *)
(***************************************************************************)

\* the allow-list of hosts
AllowList == {"www.youtube.com", "youtube.com", "youtu.be", "m.youtube.com"}

\* the url cannot be parsed, or its host is not in the allow-list
InvalidUrl(url) ==
  urlparse(url).raises \/ urlparse(url).netloc \notin AllowList

\* the step handles a request
Handles == nreq' # nreq

\* an entry under key that is older than the expiry window
Stale(c, key, time) == key \in DOMAIN c /\ time - c[key].time >= CACHE_EXPIRY

\* the request was an extraction whose result was returned
Ranked == last.op = "fetch_info" /\ last.how = "stored"

\* the raw format list of the last extraction and the formats returned
RawOfLast == GetD(last.eng.info, "formats", <<>>)

OutOfLast == last.val.formats

Tiers == {360, 480, 720, 1080}

\* the raw entry carries a video stream and its height is the tier
VideoAtTier(f, tier) ==
  /\ GetD(f, "vcodec", "") # "none"
  /\ Has(f, "height")
  /\ f.height = tier

\* the positions of the raw entries with this format_id
RawWithId(raw, id) == {j \in DOMAIN raw : GetD(raw[j], "format_id", "") = id}

\* the raw entry a returned format was made from (format ids are unique in
\* the lists of SpecRank)
RawOf(raw, fmt) == raw[CHOOSE j \in RawWithId(raw, fmt.format_id) : TRUE]

\* the raw entries of a tier, by position
AtTier(raw, tier) == {j \in DOMAIN raw : VideoAtTier(raw[j], tier)}

\* C1: once get_video_info(u) has stored its result, a second
\* get_video_info(u) within the expiry window is a cache hit that does not
\* invoke the engine, and the entry stored on a miss is the one the next
\* lookup for the same URL finds.
C1_SecondRequestHits ==
  /\ (/\ last.op = "fetch_info"
      /\ last.prevOk >= 0
      /\ last.at - last.prevOk < CACHE_EXPIRY)
       => (last.how = "hit" /\ ~last.called)
  /\ (last.op = "fetch_info" /\ last.how = "stored")
       => /\ normalize_youtube_url(last.url) \in DOMAIN cache
          /\ cache[normalize_youtube_url(last.url)].data = last.val

\* C2: a lookup that finds an entry older than the expiry window invokes the
\* engine and is no hit; no step removes an entry from the mapping, and an
\* entry changes only when a successful extraction is stored under its key.
C2_StaleIgnoredNeverRemoved ==
  [][/\ \A k \in DOMAIN cache :
          /\ k \in DOMAIN cache'
          /\ cache'[k] # cache[k]
               => (Handles /\ last'.how = "stored" /\ last'.url = k)
     /\ (/\ Handles
         /\ last'.op = "fetch_info"
         /\ last'.url # ""
         /\ ~InvalidUrl(last'.url)
         /\ Stale(cache, normalize_youtube_url(last'.url), now))
          => (last'.called /\ last'.how # "hit")]_vars

\* a stale entry was overwritten by a later extraction for the same key
C2_Witness ==
  /\ Ranked
  /\ last.prevOk >= 0
  /\ last.at - last.prevOk >= CACHE_EXPIRY
  /\ normalize_youtube_url(last.url) = last.url
  /\ cache[last.url].time >= last.at

\* C3: get_video_info of a URL that cannot be parsed or whose host is not in
\* the allow-list reports an error, does not invoke the engine and leaves
\* the cache unchanged.
C3_InvalidUrlRejected ==
  [][(/\ Handles
      /\ last'.op = "fetch_info"
      /\ last'.url # ""
      /\ InvalidUrl(last'.url))
       => /\ ~last'.ok
          /\ last'.how = "invalid"
          /\ last'.status = 400
          /\ ~last'.called
          /\ cache' = cache]_vars

\* an unparseable URL was rejected while the cache held an entry
C3_Witness ==
  /\ last.op = "fetch_info"
  /\ last.how = "invalid"
  /\ urlparse(last.url).raises
  /\ cache # <<>>

\* C4: when the engine returns no data or raises, the cache after the call is
\* the cache before it, and the next request for that URL invokes the engine
\* again.
C4_FailureLeavesCache ==
  [][/\ (/\ Handles
         /\ last'.op = "fetch_info"
         /\ last'.eng.kind \in {"none", "raise"})
          => (~last'.ok /\ cache' = cache)
     /\ (/\ Handles
         /\ last.op = "fetch_info"
         /\ last.eng.kind \in {"none", "raise"}
         /\ last'.op = "fetch_info"
         /\ last'.url = last.url)
          => last'.called]_vars

\* an extraction failed while the cache held an entry
C4_Witness ==
  /\ last.op = "fetch_info"
  /\ last.eng.kind = "none"
  /\ ~last.ok
  /\ cache # <<>>

\* C5: the returned formats hold at most one entry per tier, in ascending
\* tier order, each made from a raw entry that carries video at that tier;
\* every tier with such an entry is returned, and a raw list without any
\* yields an empty list and no error.
C5_OnePerTierAscending ==
  Ranked =>
    /\ \A i \in DOMAIN OutOfLast :
         /\ RawWithId(RawOfLast, OutOfLast[i].format_id) # {}
         /\ \E tier \in Tiers : VideoAtTier(RawOf(RawOfLast, OutOfLast[i]), tier)
    /\ \A i, k \in DOMAIN OutOfLast :
         i < k => RawOf(RawOfLast, OutOfLast[i]).height
                    < RawOf(RawOfLast, OutOfLast[k]).height
    /\ \A tier \in Tiers :
         AtTier(RawOfLast, tier) # {}
           => \E i \in DOMAIN OutOfLast :
                RawOf(RawOfLast, OutOfLast[i]).height = tier
    /\ last.ok

\* one tier was returned from a list of two entries, the other a tier-height
\* entry without a video stream
C5_Witness ==
  /\ Ranked
  /\ Len(OutOfLast) = 1
  /\ Len(RawOfLast) = 2
  /\ \E j \in DOMAIN RawOfLast :
       GetD(RawOfLast[j], "vcodec", "") = "none" /\ Has(RawOfLast[j], "height")

\* the reported size of a raw entry, an unknown size being the smallest
ClaimBytes(f) == GetD(f, "filesize", -1)

\* C6: among the mp4 raw formats of one tier the ranker selects the one with
\* the largest reported size in bytes, an unknown size being the smallest.
C6_LargestMp4Chosen ==
  Ranked =>
    \A i \in DOMAIN OutOfLast :
      \A j \in AtTier(RawOfLast, RawOf(RawOfLast, OutOfLast[i]).height) :
        GetD(RawOfLast[j], "ext", "") = "mp4"
          => ClaimBytes(RawOfLast[j]) <= ClaimBytes(RawOf(RawOfLast, OutOfLast[i]))

\* the first position of a non-empty set of positions
First(Q) == CHOOSE j \in Q : \A k \in Q : j <= k

\* C7: when a tier holds an mp4 raw format the format chosen for the tier is
\* an mp4 one, whatever the sizes and the order; when it holds none, the
\* first entry of the tier in the raw list is chosen.
C7_PreferredContainerWins ==
  Ranked =>
    \A i \in DOMAIN OutOfLast :
      IF \E j \in AtTier(RawOfLast, RawOf(RawOfLast, OutOfLast[i]).height) :
           GetD(RawOfLast[j], "ext", "") = "mp4"
      THEN /\ OutOfLast[i].extension = "mp4"
           /\ RawOf(RawOfLast, OutOfLast[i]).ext = "mp4"
      ELSE RawWithId(RawOfLast, OutOfLast[i].format_id)
             = {First(AtTier(RawOfLast, RawOf(RawOfLast, OutOfLast[i]).height))}

\* a smaller mp4 entry was chosen over a larger webm entry listed before it
C7_Witness ==
  /\ Ranked
  /\ Len(RawOfLast) = 2
  /\ Len(OutOfLast) = 1
  /\ RawOfLast[1].ext = "webm"
  /\ RawOfLast[2].ext = "mp4"
  /\ ClaimBytes(RawOfLast[1]) > ClaimBytes(RawOfLast[2])
  /\ OutOfLast[1].format_id = RawOfLast[2].format_id

\* the path of the URL contains '/shorts/'
PathHasShorts(url) == Contains(urlparse(url).path, "/shorts/")

\* some raw entry with this format_id reports an audio stream
ClaimAudio(raw, id) ==
  \E j \in RawWithId(raw, id) : GetD(raw[j], "acodec", "") # "none"

\* C8: every format returned for a URL whose path contains '/shorts/' has
\* has_audio = true; for any other URL has_audio is true exactly when some
\* raw entry with the chosen format_id reports an audio stream; on a miss
\* and on a hit alike.
C8_ShortsForceAudio ==
  /\ Ranked
       => \A i \in DOMAIN OutOfLast :
            OutOfLast[i].has_audio
              = (PathHasShorts(last.url)
                   \/ ClaimAudio(RawOfLast, OutOfLast[i].format_id))
  /\ (last.op = "fetch_info" /\ last.how = "hit")
       => IF PathHasShorts(last.url)
          THEN \A i \in DOMAIN OutOfLast : OutOfLast[i].has_audio
          ELSE \E info \in Infos :
                 \A i \in DOMAIN OutOfLast :
                   /\ RawWithId(info.formats, OutOfLast[i].format_id) # {}
                   /\ OutOfLast[i].has_audio
                        = ClaimAudio(info.formats, OutOfLast[i].format_id)

\* C9: a failure of the external layer is answered with the same fixed
\* message by /fetch-info and by /download, and the message never carries
\* the detail of the failure.
C9_GenericFailureMessage ==
  (last.op \in {"fetch_info", "download"} /\ last.called /\ ~last.ok)
    => /\ last.error = GENERIC_ERROR
       /\ last.eng.kind = "raise" => ~Contains(last.error, last.eng.cause)

\* C10: the quality label of a returned format is its tier followed by 'p'
\* when the container is mp4, and that label followed by the container in
\* parentheses otherwise.
C10_QualityLabel ==
  Ranked =>
    \A i \in DOMAIN OutOfLast :
      OutOfLast[i].quality
        = IF OutOfLast[i].extension = "mp4"
          THEN ToString(RawOf(RawOfLast, OutOfLast[i]).height) \o "p"
          ELSE ToString(RawOf(RawOfLast, OutOfLast[i]).height) \o "p ("
                 \o OutOfLast[i].extension \o ")"

====
